---- MODULE Spec2Model ----
(***************************************************************************)
(* A model of secretary.py (Render): the field-promotion pass              *)
(* prepare_template_tags over a minidom tree, the render pipeline with     *)
(* unpack_template / pack_document, the markdown filter's tag substitution *)
(* and style registry, and the unescape_gt_lt pass.                        *)
(***************************************************************************)
EXTENDS Integers, Sequences, FiniteSets, TLC

(***************************************************************************)
(* Bounds of the model.                                                    *)
(***************************************************************************)
\* element nodes of an input tree (the Document node is extra)
MaxNodes == 6
\* text:text-input fields of an input tree
MaxFields == 2
\* distinct well-formed byte strings an archive entry can hold, and distinct
\* well-formed texts the template engine can return
MaxDocs == 2
\* elements of the HTML a markdown_filter call parses (the html root is extra)
MaxHtml == 2
\* markdown_filter calls within one render
MaxCalls == 2
\* pieces (delimiters, entities, characters) a serialized text is made of
MaxPieces == 5

(***************************************************************************)
(* Generic helpers.                                                        *)
(***************************************************************************)
Range(s) == {s[i] : i \in DOMAIN s}

IndexOf(s, x) == CHOOSE i \in DOMAIN s : s[i] = x

\* s without the element at position i
RemoveAt(s, i) == [j \in 1..(Len(s) - 1) |-> IF j < i THEN s[j] ELSE s[j + 1]]

\* s with x placed at position i
InsertAt(s, i, x) ==
    [j \in 1..(Len(s) + 1) |-> IF j < i THEN s[j] ELSE IF j = i THEN x ELSE s[j - 1]]

\* s without every occurrence of x
Without(s, x) == SelectSeq(s, LAMBDA e : e # x)

(***************************************************************************)
(* Nodes.  Node 0 is the minidom Document, 1..MaxNodes are the elements of *)
(* the parsed tree (in document order), and every field f has two nodes    *)
(* that its promotion may create: a text node and a text:span.             *)
(***************************************************************************)
None == -1
Doc == 0
Elems == 1..MaxNodes
TextOf(f) == MaxNodes + f
SpanOf(f) == 2 * MaxNodes + f
Nodes == 0..(3 * MaxNodes)

TP == "text:p"
TH == "text:h"
ROW == "table:table-row"
CELL == "table:table-cell"
INPUT == "text:text-input"
ROOT == "office:text"

FLOW_REFERENCES ==
    (<<"text:p">> :> TP) @@ (<<"paragraph">> :> TP)
    @@ (<<"before::", "paragraph">> :> TP) @@ (<<"after::", "paragraph">> :> TP)
    @@ (<<"table:table-row">> :> ROW) @@ (<<"table-row">> :> ROW) @@ (<<"row">> :> ROW)
    @@ (<<"before::", "table-row">> :> ROW) @@ (<<"after::", "table-row">> :> ROW)
    @@ (<<"before::", "row">> :> ROW) @@ (<<"after::", "row">> :> ROW)
    @@ (<<"table:table-cell">> :> CELL) @@ (<<"table-cell">> :> CELL) @@ (<<"cell">> :> CELL)
    @@ (<<"before::", "table-cell">> :> CELL) @@ (<<"after::", "table-cell">> :> CELL)
    @@ (<<"before::", "cell">> :> CELL) @@ (<<"after::", "cell">> :> CELL)

SUPPORTED_FIELD_REFERECES == {<<TP>>, <<ROW>>, <<CELL>>}

(***************************************************************************)
(* Strings are sequences of symbols.  A text:description is a sequence of  *)
(* the pieces "before::", "after::", a scope word, and " " (whitespace).   *)
(***************************************************************************)
IsSpace(c) == c \in {" ", "\n"}

RECURSIVE LStrip(_)
LStrip(s) == IF s # <<>> /\ IsSpace(Head(s)) THEN LStrip(Tail(s)) ELSE s

RECURSIVE RStrip(_)
RStrip(s) ==
    IF s # <<>> /\ IsSpace(s[Len(s)]) THEN RStrip(SubSeq(s, 1, Len(s) - 1)) ELSE s

\* str.strip()
Strip(s) == RStrip(LStrip(s))

\* str.startswith(prefix), for a one-piece prefix
StartsWith(s, piece) == s # <<>> /\ s[1] = piece

\* FLOW_REFERENCES.get(field_reference.strip(), field_reference)
OdtReference(ref) ==
    IF Strip(ref) \in DOMAIN FLOW_REFERENCES THEN <<FLOW_REFERENCES[Strip(ref)]>> ELSE ref

(***************************************************************************)
(* Field content: the data of the field's first child, "\n" removed.       *)
(***************************************************************************)
FieldContent(d) == Without(d, "\n")

\* re.findall(r'(\{.*?\}*})', field_content): a "{" with a "}" after it
HasTemplateTags(c) ==
    \E i \in DOMAIN c : \E j \in DOMAIN c : i < j /\ c[i] = "{" /\ c[j] = "}"

\* re.findall(r'(^\{\%.*?\%\}*})$', field_content.strip())
IsBlockTag(c) ==
    LET s == Strip(c)
    IN  /\ Len(s) >= 4
        /\ s[1] = "{"
        /\ s[2] = "%"
        /\ \E p \in 3..(Len(s) - 1) :
              /\ s[p] = "%"
              /\ \A q \in (p + 1)..Len(s) : s[q] = "}"

\* re.findall(r'\|markdown', field_content)
IsMarkdown(c) == \E i \in DOMAIN c : c[i] = "|markdown"

(***************************************************************************)
(* State of one prepare_template_tags pass over one tree.                  *)
(*   kids    childNodes of every node (parentNode is derived from it)      *)
(*   tag     nodeName of every node ("" for a node not created yet)        *)
(*   data    the data of a field's first child / of a created text node    *)
(*           (<<>>: the field has no child nodes)                          *)
(*   desc    the text:description attribute of every field                 *)
(*   cnt     secretary_field_count / _variable_count / _block_count        *)
(*   fields  the NodeList of getElementsByTagName('text:text-input')       *)
(*   pc,idx  the loop the pass is in and its position in fields            *)
(*   kids0   the tree as parsed (par0: its parentNode);                    *)
(*   prev    the tree before the last promotion                            *)
(*   dest, removed, newnode  per field: the local variables field (the     *)
(*           destination), the node handed to removeChild, jinja_tag_node  *)
(***************************************************************************)
VARIABLES kids, tag, data, desc, cnt, fields, pc, idx,
          kids0, par0, prev, dest, removed, newnode

pvars == <<kids, tag, data, desc, cnt, fields, pc, idx,
           kids0, par0, prev, dest, removed, newnode>>

(***************************************************************************)
(* State of one Render.render call.                                        *)
(*   archive    the entries of the template zip (name -> bytes)            *)
(*   file_list  self.file_list                                             *)
(*   content, styles   self.content, self.styles (Unbound: never assigned) *)
(*   rendered   the entries written to self.rendered                       *)
(*   rpc        where render is ("raised": an exception left it)           *)
(***************************************************************************)
VARIABLES archive, file_list, content, styles, rendered, rpc

rvars == <<archive, file_list, content, styles, rendered, rpc>>

(***************************************************************************)
(* State of the markdown filter within one render.                         *)
(*   html         the tree under xml_object, as a nested value             *)
(*   registry     style:name of the children of office:automatic-styles    *)
(*   styles_cache the names cached by the running call                     *)
(*   todo         keys of transform_map the outer loop has not reached     *)
(*   html_nodes   what is left of the NodeList of the current tag: the     *)
(*                path of each node in html, <<0>> once it is detached     *)
(*   curtag       the tag of the running outer iteration                   *)
(*   calls        markdown_filter calls started in this render             *)
(*   mpc          where the filter is                                      *)
(*   html0        the tree as parsed;  registry0  the registry at the start   *)
(*   needed       per call, the style names its nodes have required        *)
(***************************************************************************)
VARIABLES html, registry, styles_cache, todo, html_nodes, curtag, calls, mpc,
          html0, registry0, needed

mvars == <<html, registry, styles_cache, todo, html_nodes, curtag, calls, mpc,
           html0, registry0, needed>>

(***************************************************************************)
(* State of one unescape_gt_lt call: the text handed in, the text so far,  *)
(* the patterns of unescape_entities still to apply.                       *)
(***************************************************************************)
VARIABLES text_in, text, patterns

uvars == <<text_in, text, patterns>>

vars == <<pvars, rvars, mvars, uvars>>

\* the variables of a part of the program that is not running
IdlePromote ==
    /\ kids = <<>> /\ tag = <<>> /\ data = <<>> /\ desc = <<>> /\ cnt = <<>>
    /\ fields = <<>> /\ pc = "idle" /\ idx = 0 /\ kids0 = <<>> /\ par0 = <<>>
    /\ prev = <<>> /\ dest = <<>> /\ removed = <<>> /\ newnode = <<>>

IdleRender ==
    /\ archive = <<>> /\ file_list = <<>> /\ content = <<>> /\ styles = <<>>
    /\ rendered = <<>> /\ rpc = "idle"

IdleMarkdown ==
    /\ html = <<>> /\ registry = <<>> /\ styles_cache = {} /\ todo = {}
    /\ html_nodes = <<>> /\ curtag = "" /\ calls = 0 /\ mpc = "idle"
    /\ html0 = <<>> /\ registry0 = <<>> /\ needed = <<>>

IdleUnescape == text_in = <<>> /\ text = <<>> /\ patterns = {}

Raise == -2
Unset == -1
NoCount == [field |-> Unset, variable |-> Unset, block |-> Unset]

\* node.parentNode
Parent(k, n) ==
    LET ps == {p \in Nodes : \E i \in DOMAIN k[p] : k[p][i] = n}
    IN  IF ps = {} THEN None ELSE CHOOSE p \in ps : TRUE

RECURSIVE node_parents(_, _, _)
\* Render.node_parents: hasattr(node, 'parentNode') holds for every minidom
\* node, so above the top of the tree None.nodeName raises AttributeError
node_parents(k, node, parent_type) ==
    LET p == Parent(k, node)
    IN  IF p = None THEN Raise
        ELSE IF tag[p] = parent_type THEN p
        ELSE node_parents(k, p, parent_type)

RECURSIVE inc_node_fields_count(_, _, _, _)
\* Render.inc_node_fields_count
inc_node_fields_count(c, k, node, field_type) ==
    IF node = None THEN c
    ELSE LET old == IF c[node] = NoCount
                    THEN [field |-> 0, variable |-> 0, block |-> 0]
                    ELSE c[node]
             new == [field |-> old.field + 1,
                     variable |-> old.variable + (IF field_type = "variable" THEN 1 ELSE 0),
                     block |-> old.block + (IF field_type = "variable" THEN 0 ELSE 1)]
         IN  inc_node_fields_count([c EXCEPT ![node] = new], k, Parent(k, node), field_type)

\* Qualifies without the template-tag test (the two "continue"s lost)
Qualifies_NoPatternTest(f) == data[f] # <<>>

\* the test both loops make before they look at a field
Qualifies(f) == data[f] # <<>> /\ HasTemplateTags(FieldContent(data[f]))

RECURSIVE Hoist_StopAtOne(_, _, _)
\* Hoist with the loop test "< 1" for "<= 1"
Hoist_StopAtOne(k, c, field) ==
    LET p == Parent(k, field)
    IN  IF p = None \/ c[p] = NoCount THEN Raise
        ELSE IF c[p].field < 1 THEN Hoist_StopAtOne(k, c, p)
        ELSE field

RECURSIVE Hoist(_, _, _)
\* while field.parentNode.secretary_field_count <= 1: field = field.parentNode
Hoist(k, c, field) ==
    LET p == Parent(k, field)
    IN  IF p = None \/ c[p] = NoCount THEN Raise
        ELSE IF c[p].field <= 1 THEN Hoist(k, c, p)
        ELSE field

\* field_reference after the markdown override
EffectiveReference(f) ==
    IF IsMarkdown(FieldContent(data[f])) THEN <<TP>> ELSE desc[f]

\* the destination: field after the branch on field_reference
Destination(k, c, f, ref) ==
    IF ref = <<>>
    THEN IF IsBlockTag(FieldContent(data[f])) THEN Hoist(k, c, f) ELSE f
    ELSE IF OdtReference(ref) \in SUPPORTED_FIELD_REFERECES
         THEN node_parents(k, f, OdtReference(ref)[1])
         ELSE f

\* parent.insertBefore(jinja_tag_node, field) / appendChild / insertBefore(.., nextSibling)
InsertAfter(ref) == StartsWith(ref, "after::")

\* Insertion without the after:: branch
Insertion_AlwaysBefore(k, parent, d, new, ref) ==
    [k EXCEPT ![parent] = InsertAt(k[parent], IndexOf(k[parent], d), new)]

Insertion(k, parent, d, new, ref) ==
    LET i == IndexOf(k[parent], d)
    IN  IF ~InsertAfter(ref)
        THEN [k EXCEPT ![parent] = InsertAt(k[parent], i, new)]
        ELSE IF i = Len(k[parent])
             THEN [k EXCEPT ![parent] = Append(k[parent], new)]
             ELSE [k EXCEPT ![parent] = InsertAt(k[parent], i + 1, new)]

\* field_reference.startswith('after::') or field_reference.startswith('before::')
KeepContainer(ref) == StartsWith(ref, "after::") \/ StartsWith(ref, "before::")

\* One iteration of the second loop for a qualifying field f whose attribute is
\* ref0.  raised: an exception left the loop; kids is the tree it leaves.
Promote(k, c, f, ref0) ==
    LET ref == IF IsMarkdown(FieldContent(data[f])) THEN <<TP>> ELSE ref0
        span == ref = <<>> /\ ~IsBlockTag(FieldContent(data[f]))
        d == Destination(k, c, f, ref)
        new == IF span THEN SpanOf(f) ELSE TextOf(f)
        k1 == IF span THEN [k EXCEPT ![SpanOf(f)] = <<TextOf(f)>>] ELSE k
        parent == IF d = Raise THEN None ELSE Parent(k1, d)
        failed == [kids |-> k, raised |-> TRUE, created |-> FALSE,
                   dest |-> None, removed |-> None, new |-> None]
    IN  IF d = Raise THEN failed
        ELSE IF parent = None \/ parent = Doc
        THEN [failed EXCEPT !.kids = k1, !.created = TRUE, !.dest = d]
        ELSE LET k2 == Insertion(k1, parent, d, new, ref)
                 rf == IF KeepContainer(ref) THEN node_parents(k2, f, TP) ELSE d
                 rp == IF rf = Raise THEN None ELSE Parent(k2, rf)
             IN  IF rf = Raise \/ rp = None
                 THEN [kids |-> k2, raised |-> TRUE, created |-> TRUE,
                       dest |-> d, removed |-> None, new |-> new]
                 ELSE [kids |-> [k2 EXCEPT ![rp] = RemoveAt(k2[rp], IndexOf(k2[rp], rf))],
                       raised |-> FALSE, created |-> TRUE,
                       dest |-> d, removed |-> rf, new |-> new]

(***************************************************************************)
(* Input trees: what parseString can hand to the pass.  Elements are       *)
(* numbered in document order; a text:text-input holds text only.          *)
(***************************************************************************)
AllowedChildren(t) ==
    CASE t = ROOT -> {TP, TH, ROW}
      [] t = ROW -> {CELL}
      [] t = CELL -> {TP}
      [] t \in {TP, TH} -> {INPUT}
      [] OTHER -> {}

RECURSIVE PathUp(_, _)
PathUp(t, n) == IF n = Doc THEN {} ELSE {n} \cup PathUp(t, t[n].par)

NumFields(t) == Cardinality({i \in DOMAIN t : t[i].tag = INPUT})

RECURSIVE Shapes(_)
Shapes(n) ==
    IF n = 1 THEN {<<[par |-> Doc, tag |-> ROOT]>>}
    ELSE LET S == Shapes(n - 1)
         IN  S \cup UNION { UNION { { Append(t, [par |-> p, tag |-> g]) :
                                         g \in AllowedChildren(t[p].tag) } :
                                     p \in PathUp(t, n - 1) } :
                             t \in {s \in S : Len(s) = n - 1} }

RECURSIVE SortedSeq(_)
SortedSeq(S) ==
    IF S = {} THEN <<>>
    ELSE LET m == CHOOSE x \in S : \A y \in S : x <= y
         IN  <<m>> \o SortedSeq(S \ {m})

Plain == <<"x">>
Var == <<"{", "{", "x", "}", "}">>
Block == <<"{", "%", "x", "%", "}">>
Md == <<"{", "{", "x", "|markdown", "}", "}">>

Descriptions ==
    { <<>>, <<"row">>, <<"bogus">>,
      <<"after::", "cell">>, <<" ", "after::", "cell">>, <<"after::", "row">>,
      <<"after::", "paragraph">>, <<" ", "before::", "row">> }

\* (content, text:description) of a field.  The attribute of a markdown field is
\* overridden, that of a field without template tags is never read, and with an
\* attribute a block tag is handled as a variable is.
FieldInputs ==
    {<<Var, d>> : d \in Descriptions}
    \cup {<<Block, <<>>>>, <<Block, <<"row">>>>, <<Block, <<"after::", "cell">>>>}
    \cup {<<Md, <<>>>>, <<Plain, <<>>>>, <<Plain, <<"row">>>>, <<<<>>, <<>>>>}

InputTrees == {t \in Shapes(MaxNodes) : NumFields(t) \in 1..MaxFields}

InitPromote ==
    \E t \in InputTrees :
      LET F == {i \in DOMAIN t : t[i].tag = INPUT}
      IN  \E inp \in [F -> FieldInputs] :
            /\ kids = [n \in Nodes |->
                         IF n = Doc THEN <<1>>
                         ELSE SortedSeq({c \in DOMAIN t : t[c].par = n})]
            /\ tag = [n \in Nodes |->
                        IF n = Doc THEN "#document"
                        ELSE IF n \in DOMAIN t THEN t[n].tag ELSE ""]
            /\ data = [n \in Nodes |-> IF n \in F THEN inp[n][1] ELSE <<>>]
            /\ desc = [n \in Nodes |-> IF n \in F THEN inp[n][2] ELSE <<>>]
            /\ cnt = [n \in Nodes |-> NoCount]
            /\ fields = SortedSeq(F)
            /\ pc = "count"
            /\ idx = 1
            /\ kids0 = kids
            /\ par0 = [n \in Nodes |->
                         IF n \in DOMAIN t THEN t[n].par ELSE None]
            /\ prev = kids
            /\ dest = [n \in Nodes |-> None]
            /\ removed = [n \in Nodes |-> None]
            /\ newnode = [n \in Nodes |-> None]
            /\ IdleRender /\ IdleMarkdown /\ IdleUnescape

\* first loop, one field
CountField ==
    /\ pc = "count"
    /\ idx <= Len(fields)
    /\ LET f == fields[idx]
       IN  cnt' = IF Qualifies(f)
                  THEN inc_node_fields_count(cnt, kids, Parent(kids, f),
                          IF IsBlockTag(FieldContent(data[f])) THEN "block" ELSE "variable")
                  ELSE cnt
    /\ idx' = idx + 1
    /\ UNCHANGED <<kids, tag, data, desc, fields, pc, kids0, par0, prev, dest, removed, newnode,
                   rvars, mvars, uvars>>

\* the first loop ends, the second begins
StartPromote ==
    /\ pc = "count"
    /\ idx > Len(fields)
    /\ pc' = "promote"
    /\ idx' = 1
    /\ UNCHANGED <<kids, tag, data, desc, cnt, fields, kids0, par0, prev, dest, removed, newnode,
                   rvars, mvars, uvars>>

\* second loop, one field
PromoteField ==
    /\ pc = "promote"
    /\ idx <= Len(fields)
    /\ \E f \in {fields[idx]} : \E r \in {Promote(kids, cnt, f, desc[f])} :
           IF ~Qualifies(f)
           THEN /\ idx' = idx + 1
                /\ UNCHANGED <<kids, tag, data, pc, prev, dest, removed, newnode>>
           ELSE /\ kids' = r.kids
                /\ prev' = kids
                /\ tag' = IF ~r.created THEN tag
                          ELSE [tag EXCEPT ![TextOf(f)] = "#text",
                                           ![SpanOf(f)] =
                                               IF r.kids[SpanOf(f)] # <<>> \/ r.new = SpanOf(f)
                                               THEN "text:span" ELSE @]
                /\ data' = IF r.created
                           THEN [data EXCEPT ![TextOf(f)] = FieldContent(data[f])]
                           ELSE data
                /\ dest' = [dest EXCEPT ![f] = r.dest]
                /\ removed' = [removed EXCEPT ![f] = r.removed]
                /\ newnode' = [newnode EXCEPT ![f] = r.new]
                /\ pc' = IF r.raised THEN "error" ELSE pc
                /\ idx' = IF r.raised THEN idx ELSE idx + 1
    /\ UNCHANGED <<desc, cnt, fields, kids0, par0, rvars, mvars, uvars>>

\* the second loop ends
FinishPromote ==
    /\ pc = "promote"
    /\ idx > Len(fields)
    /\ pc' = "done"
    /\ UNCHANGED <<kids, tag, data, desc, cnt, fields, idx, kids0, par0, prev, dest, removed,
                   newnode, rvars, mvars, uvars>>

NextPromote == CountField \/ StartPromote \/ PromoteField \/ FinishPromote

SpecPromote == InitPromote /\ [][NextPromote]_vars

(***************************************************************************)
(* Vocabulary of the promotion claims.                                     *)
(***************************************************************************)
RECURSIVE Ancestors0(_)
\* the ancestors of n in the tree as parsed
Ancestors0(n) == IF par0[n] = None THEN {} ELSE {par0[n]} \cup Ancestors0(par0[n])

NextSibling(k, n) ==
    LET p == Parent(k, n)
    IN  IF p = None THEN None
        ELSE IF IndexOf(k[p], n) < Len(k[p]) THEN k[p][IndexOf(k[p], n) + 1]
        ELSE None

IsField(f) == f \in Elems /\ tag[f] = INPUT

\* a field with no children, or whose content has no "{" ... "}"
NoTemplateTags(f) ==
    data[f] = <<>> \/ ~HasTemplateTags(FieldContent(data[f]))

\* the second loop has just run its body for the qualifying field f
\* (prev is then the tree that iteration started from)
JustPromoted(f) ==
    /\ IsField(f)
    /\ Qualifies(f)
    /\ \/ pc = "promote" /\ idx > 1 /\ fields[idx - 1] = f
       \/ pc = "error" /\ fields[idx] = f

\* a block-classified field with no scope reference
BlockNoReference(f) ==
    /\ IsField(f)
    /\ Qualifies(f)
    /\ IsBlockTag(FieldContent(data[f]))
    /\ EffectiveReference(f) = <<>>

\* C1: a text:text-input whose content has no template tags (or that has no
\* children) is left as it was by the whole pass: it keeps its children and its
\* place under its parent, it is never a destination, never the node removed,
\* no replacement node is made for it, and it is not counted: once the count
\* loop is over, every node's total count is the number of qualifying fields
\* below it in the parsed tree, whatever other fields the tree holds.
C1_PlainFieldUntouched ==
    /\ \A f \in Elems :
          (IsField(f) /\ NoTemplateTags(f)) =>
             /\ kids[f] = kids0[f]
             /\ Parent(kids, f) = par0[f]
             /\ IndexOf(kids0[par0[f]], f) <= Len(kids[Parent(kids, f)])
             /\ dest[f] = None /\ removed[f] = None /\ newnode[f] = None
             /\ tag[TextOf(f)] = "" /\ tag[SpanOf(f)] = ""
             /\ cnt[f] = NoCount
             /\ \A g \in Elems : dest[g] # f /\ removed[g] # f
    /\ pc # "count" =>
          \A n \in Nodes :
             LET below == {g \in Elems : IsField(g) /\ ~NoTemplateTags(g) /\ n \in Ancestors0(g)}
             IN  IF below = {} THEN cnt[n] = NoCount
                 ELSE cnt[n].field = Cardinality(below)

\* C1 witness: the pass has ended on a paragraph that held a field without
\* template tags next to a qualifying field that was replaced
C1_Witness ==
    /\ pc = "done"
    /\ \E f \in Elems : \E g \in Elems :
          /\ IsField(f) /\ data[f] = Plain
          /\ IsField(g) /\ Qualifies(g) /\ removed[g] = g
          /\ par0[f] = par0[g]

\* C2 as claimed: the destination of a block field with no scope reference is
\* an ancestor whose total count is >= 2, and every strictly closer ancestor
\* has count <= 1.
C2_Original ==
    \A f \in Elems :
       (BlockNoReference(f) /\ dest[f] # None) =>
          /\ dest[f] \in Ancestors0(f)
          /\ cnt[dest[f]].field >= 2
          /\ \A a \in Ancestors0(f) :
                dest[f] \in Ancestors0(a) => cnt[a].field <= 1

\* C2 amended: the destination of a block field with no scope reference is the
\* field itself or one of its ancestors; the destination, when an ancestor, and
\* every ancestor closer to the field have total count <= 1, and it is the
\* destination's parent whose total count is >= 2.
C2_HoistBelowFirstSharedAncestor ==
    \A f \in Elems :
       (BlockNoReference(f) /\ dest[f] # None) =>
          /\ dest[f] \in {f} \cup Ancestors0(f)
          /\ \A a \in Ancestors0(f) :
                (a = dest[f] \/ dest[f] \in Ancestors0(a)) => cnt[a].field = 1
          /\ par0[dest[f]] # None
          /\ cnt[par0[dest[f]]].field >= 2

\* C2 witness: a block field with no scope reference was hoisted above its
\* own parent and the pass went on
C2_Witness ==
    \E f \in Elems :
       /\ BlockNoReference(f)
       /\ dest[f] \in Ancestors0(f)
       /\ removed[f] = dest[f]
       /\ pc = "done"

(***************************************************************************)
(* Render.render, unpack_template and pack_document.                       *)
(*                                                                         *)
(* Bytes and trees are terms.  A tree is [src, prepared, body]: the bytes   *)
(* it was parsed from, whether prepare_template_tags has run over it, and  *)
(* what it holds from the engine (0: nothing, o: the engine's output o,    *)
(* which for content.xml is the office:body and for styles.xml the whole   *)
(* document).  Bytes are the same record under a kind: "raw" (bytes i of   *)
(* the archive; src 0 is ill-formed XML), "xml" (toxml() of a tree),       *)
(* "ascii" (that, encoded).                                                *)
(***************************************************************************)
CONTENT == "content.xml"
STYLES == "styles.xml"
EntryNames == {CONTENT, STYLES, "mimetype", "meta.xml"}

Unbound == [src |-> -1, prepared |-> FALSE, body |-> 0]
NoOutput == <<>>
ParseError == [src |-> -2, prepared |-> FALSE, body |-> 0]

RawBytes(i) == [kind |-> "raw", src |-> i, prepared |-> FALSE, body |-> 0]

\* xml.dom.minidom.parseString of an archive entry
parseString(b) ==
    IF b.src = 0 THEN ParseError
    ELSE [src |-> b.src, prepared |-> b.prepared, body |-> b.body]

\* Document.toxml()
toxml(t) ==
    [kind |-> "xml", src |-> t.src, prepared |-> t.prepared, body |-> t.body]

\* .encode('ascii', 'xmlcharrefreplace')
encode(x) == [x EXCEPT !.kind = "ascii"]

\* the archives the model reads
Archives ==
    UNION { [ns -> {RawBytes(i) : i \in 0..MaxDocs}] : ns \in SUBSET EntryNames }

\* self.content without a content.xml entry: the attribute is bound to an
\* empty document instead of staying unassigned
BoundTree_Default(a, name) ==
    IF name \in DOMAIN a THEN parseString(a[name])
    ELSE [src |-> 1, prepared |-> FALSE, body |-> 0]

\* what unpack_template binds self.content / self.styles to
BoundTree(a, name) ==
    IF name \in DOMAIN a THEN parseString(a[name]) ELSE Unbound

\* the bytes pack_document writes for one entry of file_list
PackedEntry(name, bytes, c, st) ==
    IF name \in {CONTENT, STYLES} THEN encode(toxml(st)) ELSE bytes

InitRender ==
    /\ archive \in Archives
    /\ file_list = <<>>
    /\ content = Unbound
    /\ styles = Unbound
    /\ rendered = NoOutput
    /\ rpc = "start"
    /\ IdlePromote /\ IdleMarkdown /\ IdleUnescape

\* unpack_template: every entry read; an ill-formed content.xml or styles.xml
\* raises where the loop meets it, after the entries in seen
Unpack ==
    /\ rpc = "start"
    /\ LET bad == {n \in DOMAIN archive \cap {CONTENT, STYLES} :
                     parseString(archive[n]) = ParseError}
       IN  IF bad = {}
           THEN /\ file_list' = archive
                /\ content' = BoundTree(archive, CONTENT)
                /\ styles' = BoundTree(archive, STYLES)
                /\ rpc' = "content"
           ELSE \E b \in bad : \E seen \in SUBSET (DOMAIN archive \ {b}) :
                  /\ \A n \in seen \cap {CONTENT, STYLES} : n \notin bad
                  /\ file_list' = [n \in seen \cup {b} |-> archive[n]]
                  /\ content' = IF CONTENT \in seen THEN parseString(archive[CONTENT])
                                ELSE content
                  /\ styles' = IF STYLES \in seen THEN parseString(archive[STYLES])
                               ELSE styles
                  /\ rpc' = "raised"
    /\ UNCHANGED <<archive, rendered, pvars, mvars, uvars>>

\* self.prepare_template_tags(self.content): AttributeError when self.content
\* was never assigned; the pass itself may raise
PrepareContent ==
    /\ rpc = "content"
    /\ \E passes \in BOOLEAN :
          IF content = Unbound \/ ~passes
          THEN rpc' = "raised" /\ UNCHANGED content
          ELSE rpc' = "content_render" /\ content' = [content EXCEPT !.prepared = TRUE]
    /\ UNCHANGED <<archive, file_list, styles, rendered, pvars, mvars, uvars>>

\* lines 207-221: the engine renders the serialized tree; its output o is
\* parsed and its office:body replaces the original one.  o = -1: the engine
\* raises; o = 0: the output is not well-formed
RenderContent ==
    /\ rpc = "content_render"
    /\ \E o \in -1..MaxDocs :
          IF o <= 0
          THEN rpc' = "raised" /\ UNCHANGED content
          ELSE rpc' = "styles" /\ content' = [content EXCEPT !.body = o]
    /\ UNCHANGED <<archive, file_list, styles, rendered, pvars, mvars, uvars>>

\* self.prepare_template_tags(self.styles)
PrepareStyles ==
    /\ rpc = "styles"
    /\ \E passes \in BOOLEAN :
          IF styles = Unbound \/ ~passes
          THEN rpc' = "raised" /\ UNCHANGED styles
          ELSE rpc' = "styles_render" /\ styles' = [styles EXCEPT !.prepared = TRUE]
    /\ UNCHANGED <<archive, file_list, content, rendered, pvars, mvars, uvars>>

\* lines 226-232: self.styles becomes the engine's output, parsed
RenderStyles ==
    /\ rpc = "styles_render"
    /\ \E o \in -1..MaxDocs :
          IF o <= 0
          THEN rpc' = "raised" /\ UNCHANGED styles
          ELSE rpc' = "pack" /\ styles' = [styles EXCEPT !.body = o]
    /\ UNCHANGED <<archive, file_list, content, rendered, pvars, mvars, uvars>>

\* pack_document, and render returns self.rendered.getvalue()
Pack ==
    /\ rpc = "pack"
    /\ rendered' = [n \in DOMAIN file_list |-> PackedEntry(n, file_list[n], content, styles)]
    /\ rpc' = "done"
    /\ UNCHANGED <<archive, file_list, content, styles, pvars, mvars, uvars>>

NextRender ==
    Unpack \/ PrepareContent \/ RenderContent \/ PrepareStyles \/ RenderStyles \/ Pack

SpecRender == InitRender /\ [][NextRender]_vars

\* C3 as claimed: in the archive render returns, content.xml holds the serialized
\* final content tree, styles.xml the serialized final styles tree, every other
\* entry its original bytes, and the entry names are those of the input.
C3_Original ==
    rpc = "done" =>
       /\ DOMAIN rendered = DOMAIN archive
       /\ \A n \in DOMAIN rendered :
             rendered[n] = IF n = CONTENT THEN encode(toxml(content))
                           ELSE IF n = STYLES THEN encode(toxml(styles))
                           ELSE archive[n]

\* C7: without a content.xml entry render never reaches pack_document and
\* writes no output: self.content stays unassigned, so the first use of it
\* raises (unless reading the archive raised before).
C7_NoContentNoOutput ==
    CONTENT \notin DOMAIN archive =>
       /\ rpc \in {"start", "content", "raised"}
       /\ content = Unbound
       /\ rendered = NoOutput

\* C7 witness: an archive with a well-formed styles.xml and no content.xml was
\* read to its end and render then raised
C7_Witness ==
    /\ CONTENT \notin DOMAIN archive
    /\ STYLES \in DOMAIN archive
    /\ file_list = archive
    /\ styles # Unbound
    /\ rpc = "raised"

(***************************************************************************)
(* Render.markdown_filter with get_style_by_name / insert_style_in_content.*)
(* An element is [tag, style, kids]: nodeName, its text:style-name         *)
(* attribute ("" without one) and childNodes.  A node of the tree is named *)
(* by its path, the child positions from the html root.                    *)
(***************************************************************************)
\* markdown_map.transform_map: replace_with, and the name of the style the
\* tag needs ("": the entry has no 'style')
transform_map ==
    [ p |-> [replace_with |-> "text:p", style |-> ""],
      strong |-> [replace_with |-> "text:span", style |-> "Bold"],
      code |-> [replace_with |-> "text:span", style |-> "Preformatted_20_Text"] ]

MapKeys == DOMAIN transform_map
HtmlTags == MapKeys \cup {"em"}
StyleNames == {transform_map[t].style : t \in MapKeys} \ {""}

Element(t, st, ks) == [tag |-> t, style |-> st, kids |-> ks]

RECURSIVE SubtreeAt(_, _)
SubtreeAt(t, path) ==
    IF path = <<>> THEN t ELSE SubtreeAt(t.kids[Head(path)], Tail(path))

RECURSIVE ReplaceAt(_, _, _)
\* parentNode.replaceChild(new, old) for the node at path
ReplaceAt(t, path, new) ==
    IF path = <<>> THEN new
    ELSE [t EXCEPT !.kids[Head(path)] = ReplaceAt(t.kids[Head(path)], Tail(path), new)]

RECURSIVE PathsBelow(_, _, _)
\* the descendants of t with the given tag, in document order, as paths
PathsBelow(t, prefix, tg) ==
    LET sub(i) == LET q == Append(prefix, i)
                  IN  (IF t.kids[i].tag = tg THEN <<q>> ELSE <<>>)
                      \o PathsBelow(t.kids[i], q, tg)
        from[i \in 1..(Len(t.kids) + 1)] ==
            IF i > Len(t.kids) THEN <<>> ELSE sub(i) \o from[i + 1]
    IN  from[1]

\* xml_object.getElementsByTagName(tag)
getElementsByTagName(t, tg) == PathsBelow(t, <<>>, tg)

IsPrefix(a, b) == Len(a) <= Len(b) /\ SubSeq(b, 1, Len(a)) = a

Detached == <<0>>

\* get_style_by_name that never finds the style
get_style_by_name_NotFound(reg, name) == FALSE

\* get_style_by_name(name) is not None
get_style_by_name(reg, name) == \E i \in DOMAIN reg : reg[i] = name

\* insert_style_in_content: auto_styles.appendChild(style_node)
insert_style_in_content(reg, name) == Append(reg, name)

\* lines 464-474: the registry and the cache after a node of tag tg
StyleStep(reg, cache, tg) ==
    LET name == transform_map[tg].style
    IN  IF name = "" \/ name \in cache \/ get_style_by_name(reg, name)
        THEN [registry |-> reg, cache |-> cache]
        ELSE [registry |-> insert_style_in_content(reg, name), cache |-> cache \cup {name}]

RECURSIVE HtmlForests(_)
\* the sequences of elements with n elements in all
HtmlForests(n) ==
    IF n = 0 THEN {<<>>}
    ELSE UNION { { <<Element(tg, "", inner)>> \o rest :
                      tg \in HtmlTags, inner \in HtmlForests(k - 1),
                      rest \in HtmlForests(n - k) } :
                 k \in 1..n }

\* parseString('<html>%s</html>' % html_text)
HtmlTrees == { Element("html", "", f) : f \in UNION { HtmlForests(n) : n \in 0..MaxHtml } }

Registries ==
    { <<>>, <<"P1">>, <<"P1", "Bold">>, <<"Preformatted_20_Text", "P1">> }

InitMarkdown ==
    /\ html = Element("html", "", <<>>)
    /\ html0 = html
    /\ registry \in Registries
    /\ registry0 = registry
    /\ styles_cache = {}
    /\ todo = {}
    /\ html_nodes = <<>>
    /\ curtag = ""
    /\ calls = 0
    /\ mpc = "ready"
    /\ needed = <<>>
    /\ IdlePromote /\ IdleRender /\ IdleUnescape

\* lines 418-431: a call begins; a value that is not a string returns ''
StartCall ==
    /\ mpc = "ready"
    /\ calls < MaxCalls
    /\ calls' = calls + 1
    /\ needed' = Append(needed, {})
    /\ \E textual \in BOOLEAN :
          IF textual
          THEN /\ html' \in HtmlTrees
               /\ html0' = html'
               /\ styles_cache' = {}
               /\ todo' = MapKeys
               /\ mpc' = "tags"
          ELSE UNCHANGED <<html, html0, styles_cache, todo, mpc>>
    /\ UNCHANGED <<registry, registry0, html_nodes, curtag, pvars, rvars, uvars>>

\* for tag in transform_map (a dict: any order): html_nodes = getElementsByTagName(tag)
NextTag ==
    /\ mpc = "tags"
    /\ \E tg \in todo :
          /\ curtag' = tg
          /\ todo' = todo \ {tg}
          /\ html_nodes' = getElementsByTagName(html, tg)
    /\ mpc' = "nodes"
    /\ UNCHANGED <<html, html0, registry, registry0, styles_cache, calls, needed,
                   pvars, rvars, uvars>>

\* lines 440-476 for the next node of html_nodes: the new element gets clones
\* of the node's children and takes the node's place under its parent; the
\* nodes below the replaced one are no longer in the tree
ReplaceNode ==
    /\ mpc = "nodes"
    /\ html_nodes # <<>>
    /\ LET path == Head(html_nodes)
           st == StyleStep(registry, styles_cache, curtag)
       IN  /\ registry' = st.registry
           /\ styles_cache' = st.cache
           /\ needed' = [needed EXCEPT ![calls] =
                            @ \cup ({transform_map[curtag].style} \ {""})]
           /\ IF path = Detached
              THEN /\ html' = html
                   /\ html_nodes' = Tail(html_nodes)
              ELSE /\ html' = ReplaceAt(html, path,
                                  Element(transform_map[curtag].replace_with,
                                          transform_map[curtag].style,
                                          SubtreeAt(html, path).kids))
                   /\ html_nodes' = [i \in 1..(Len(html_nodes) - 1) |->
                                       IF IsPrefix(path, html_nodes[i + 1])
                                       THEN Detached ELSE html_nodes[i + 1]]
    /\ UNCHANGED <<html0, registry0, todo, curtag, calls, mpc, pvars, rvars, uvars>>

\* the inner loop ends
EndTag ==
    /\ mpc = "nodes"
    /\ html_nodes = <<>>
    /\ mpc' = "tags"
    /\ UNCHANGED <<html, html0, registry, registry0, styles_cache, todo, html_nodes, curtag,
                   calls, needed, pvars, rvars, uvars>>

\* the outer loop ends
EndLoop ==
    /\ mpc = "tags"
    /\ todo = {}
    /\ mpc' = "loopdone"
    /\ UNCHANGED <<html, html0, registry, registry0, styles_cache, todo, html_nodes, curtag,
                   calls, needed, pvars, rvars, uvars>>

\* lines 478-491: the children of html are serialized and the call returns
Return ==
    /\ mpc = "loopdone"
    /\ mpc' = "ready"
    /\ UNCHANGED <<html, html0, registry, registry0, styles_cache, todo, html_nodes, curtag,
                   calls, needed, pvars, rvars, uvars>>

NextMarkdown == StartCall \/ NextTag \/ ReplaceNode \/ EndTag \/ EndLoop \/ Return

SpecMarkdown == InitMarkdown /\ [][NextMarkdown]_vars

Count(reg, name) == Cardinality({i \in DOMAIN reg : reg[i] = name})

\* C6: whatever markdown_filter calls a render makes, each with a fresh
\* styles_cache, the registry never holds a style name twice, a name some
\* replaced node has required is in it exactly once, and the styles it held at
\* the start are still its first entries: none was inserted again.
C6_StyleRegistered_Once ==
    /\ \A name \in StyleNames \cup Range(registry0) : Count(registry, name) <= 1
    /\ \A c \in DOMAIN needed : \A name \in needed[c] : Count(registry, name) = 1
    /\ IsPrefix(registry0, registry)

\* C6 witness: two calls of one render have both required a style that was
\* not in the registry at the start
C6_Witness ==
    /\ calls = 2
    /\ mpc = "loopdone"
    /\ \E name \in StyleNames :
          /\ name \in needed[1] \cap needed[2]
          /\ Count(registry0, name) = 0
          /\ Count(registry, name) = 1

RECURSIVE Substituted(_)
\* t with every element whose tag is a key of transform_map replaced by an
\* element of the mapped tag (and style) holding the same children, substituted
Substituted(t) ==
    LET ks == [i \in DOMAIN t.kids |-> Substituted(t.kids[i])]
    IN  IF t.tag \in MapKeys
        THEN Element(transform_map[t.tag].replace_with, transform_map[t.tag].style, ks)
        ELSE Element(t.tag, t.style, ks)

RECURSIVE TagsIn(_)
TagsIn(t) == {t.tag} \cup UNION { TagsIn(t.kids[i]) : i \in DOMAIN t.kids }

\* C9 as claimed: after the substitution loop the tree holds no element whose
\* tag is a key of the mapping table: every such element of the parsed HTML, at
\* every depth, has been replaced by an element of the mapped tag holding the
\* same children in the same order.
C9_Original ==
    mpc = "loopdone" =>
       /\ TagsIn(html) \cap MapKeys = {}
       /\ html = Substituted(html0)

(***************************************************************************)
(* Render.render.unescape_gt_lt.  A text is a sequence of characters; the  *)
(* entities "&gt;" and "&lt;" are one symbol each, which the patterns can  *)
(* only match whole and which "." matches like any other character.        *)
(***************************************************************************)
GT == "&gt;"
LT == "&lt;"

\* unescape_entities: pattern |-> replacement
unescape_entities == [gt |-> [entity |-> GT, repl |-> ">"],
                      lt |-> [entity |-> LT, repl |-> "<"]]

\* {[{|%]  at position s
OpensAt(t, s) == s + 1 <= Len(t) /\ t[s] = "{" /\ t[s + 1] \in {"{", "|", "%"}

\* [%|}]}  at position c
ClosesAt(t, c) == c + 1 <= Len(t) /\ t[c] \in {"%", "|", "}"} /\ t[c + 1] = "}"

\* .* matches t[a..b]: "." does not match a newline (re.IGNORECASE or
\* re.DOTALL is re.IGNORECASE)
DotStar(t, a, b) == \A k \in a..b : t[k] # "\n"

\* the pattern matches from s with the entity at e and the closer at c
Matches(t, s, e, c, entity) ==
    /\ OpensAt(t, s)
    /\ s + 2 <= e /\ e < c
    /\ t[e] = entity
    /\ DotStar(t, s + 2, e - 1)
    /\ DotStar(t, e + 1, c - 1)
    /\ ClosesAt(t, c)

Max(S) == CHOOSE x \in S : \A y \in S : y <= x
Min(S) == CHOOSE x \in S : \A y \in S : x <= y

RECURSIVE SubFrom(_, _, _, _)
\* re.sub(pattern, repl, text) from position from on: the leftmost match, both
\* .* greedy, is rewritten and the search goes on behind it
SubFrom(t, from, entity, repl) ==
    LET pos == 1..Len(t)
        starts == { s \in pos : s >= from /\ \E e \in pos, c \in pos : Matches(t, s, e, c, entity) }
    IN  IF starts = {} THEN t
        ELSE LET s == Min(starts)
                 e == Max({ x \in pos : \E c \in pos : Matches(t, s, x, c, entity) })
                 c == Max({ x \in pos : Matches(t, s, e, x, entity) })
             IN  SubFrom([t EXCEPT ![e] = repl], c + 2, entity, repl)

Sub(t, p) == SubFrom(t, 1, unescape_entities[p].entity, unescape_entities[p].repl)

Pieces == { <<"{", "{">>, <<"}", "}">>, <<"{", "%">>, <<"%", "}">>,
            <<GT>>, <<LT>>, <<"x">>, <<"\n">> }

RECURSIVE Flatten(_)
Flatten(ps) == IF ps = <<>> THEN <<>> ELSE Head(ps) \o Flatten(Tail(ps))

\* the serialized texts: self.content.toxml(), self.styles.toxml()
Texts == { Flatten(ps) : ps \in UNION { [1..n -> Pieces] : n \in 0..MaxPieces } }

InitUnescape ==
    /\ text_in \in Texts
    /\ text = text_in
    /\ patterns = DOMAIN unescape_entities
    /\ IdlePromote /\ IdleRender /\ IdleMarkdown

\* one round of: for pattern, repl in unescape_entities.iteritems() (a dict:
\* either pattern may come first)
ApplyPattern ==
    /\ \E p \in patterns :
          /\ text' = Sub(text, p)
          /\ patterns' = patterns \ {p}
    /\ UNCHANGED <<text_in, pvars, rvars, mvars>>

NextUnescape == ApplyPattern

SpecUnescape == InitUnescape /\ [][NextUnescape]_vars

IsPair(t, i, a, b) == i + 1 <= Len(t) /\ t[i] = a /\ t[i + 1] = b

RECURSIVE SpanFrom(_, _)
\* the positions of t, from i on, that lie inside a {{...}} or {%...%} span: a
\* span runs from its opening delimiter to the next matching closing one
SpanFrom(t, i) ==
    IF i > Len(t) THEN {}
    ELSE LET closer == IF IsPair(t, i, "{", "{") THEN <<"}", "}">>
                       ELSE IF IsPair(t, i, "{", "%") THEN <<"%", "}">>
                       ELSE <<>>
             ends == IF closer = <<>> THEN {}
                     ELSE { j \in (i + 2)..Len(t) : IsPair(t, j, closer[1], closer[2]) }
         IN  IF ends = {} THEN SpanFrom(t, i + 1)
             ELSE ((i + 2)..(Min(ends) - 1)) \cup SpanFrom(t, Min(ends) + 2)

InSpan(t) == SpanFrom(t, 1)

\* C10 as claimed: when unescape_gt_lt returns, every &gt; / &lt; of the
\* serialized text that lay inside a {{...}} or {%...%} span is > / <, and
\* every one that lay outside all such spans is still the entity.
C10_Original ==
    (patterns = {} /\ text_in # <<>>) =>
       \A i \in DOMAIN text_in :
          /\ (text_in[i] = GT) => text[i] = (IF i \in InSpan(text_in) THEN ">" ELSE GT)
          /\ (text_in[i] = LT) => text[i] = (IF i \in InSpan(text_in) THEN "<" ELSE LT)

\* the named ancestor the scope reference of f resolves to (Raise: none above f)
NamedAncestor(f) ==
    node_parents(prev, f, OdtReference(EffectiveReference(f))[1])

\* f has just been promoted, its scope reference begins with after:: and
\* resolves to a supported tag, and f had an ancestor of that tag
AfterSupported(f) ==
    /\ JustPromoted(f)
    /\ InsertAfter(EffectiveReference(f))
    /\ OdtReference(EffectiveReference(f)) \in SUPPORTED_FIELD_REFERECES
    /\ NamedAncestor(f) # Raise

C5_Original ==
    \A f \in Elems :
       ( /\ JustPromoted(f)
         /\ EffectiveReference(f) # <<>>
         /\ \/ Strip(EffectiveReference(f)) \notin DOMAIN FLOW_REFERENCES
            \/ OdtReference(EffectiveReference(f)) \notin SUPPORTED_FIELD_REFERECES
            \/ NamedAncestor(f) = Raise ) =>
          /\ dest[f] = f
          /\ pc # "error"

\* C8 as claimed: promoting a field whose attribute is a known scope name padded
\* with whitespace leaves the same tree as promoting it with the name itself.
C8_Original ==
    \A f \in Elems :
       ( /\ JustPromoted(f)
         /\ ~IsMarkdown(FieldContent(data[f]))
         /\ Strip(desc[f]) \in DOMAIN FLOW_REFERENCES ) =>
          kids = Promote(prev, cnt, f, Strip(desc[f])).kids

RECURSIVE InDocument(_, _)
\* n is reachable from the document node in the tree k
InDocument(k, n) ==
    \/ n = Doc
    \/ n # None /\ Parent(k, n) # None /\ InDocument(k, Parent(k, n))

\* C11 as claimed: when prepare_template_tags has completed, every qualifying
\* field of the parsed tree has its replacement node (the one node made for it,
\* carrying its expression) reachable from the document root: it was not
\* inserted into a subtree an earlier promotion had detached, and it did not
\* go with the node its own promotion removed.
C11_Original ==
    pc = "done" =>
       \A f \in Elems :
          (IsField(f) /\ Qualifies(f)) =>
             /\ newnode[f] # None
             /\ data[TextOf(f)] = FieldContent(data[f])
             /\ InDocument(kids, newnode[f])

\* C12 as claimed: for a block-classified field with no scope reference, also
\* when it is the only qualifying field of the tree, the hoist loop stops at a
\* node that still has a parent, never stepping past the document root, and the
\* insertion and the removal that follow succeed: the iteration raises nothing,
\* its destination has a parent in the tree it started from, the replacement
\* is made and the destination is the node removed.
C12_Original ==
    \A f \in Elems :
       (JustPromoted(f) /\ BlockNoReference(f)) =>
          /\ pc # "error"
          /\ dest[f] # None
          /\ Parent(prev, dest[f]) # None
          /\ newnode[f] = TextOf(f)
          /\ removed[f] = dest[f]

====
